---- MODULE Spec2Model ----
(***************************************************************************)
(* Model of the snedbot settings navigator (extensions/settings.py), the   *)
(* command error reporter (extensions/error_handler.py) and the helpers    *)
(* they rely on (utils/helpers.py).                                        *)
(*                                                                         *)
(* A settings session is a chain of coroutine calls.  One step of the      *)
(* model runs the chain from the moment a waiting view (or prompt) yields  *)
(* a value up to the next point where the chain suspends again, returns,   *)
(* or lets an exception escape.                                            *)
(***************************************************************************)
EXTENDS Integers, Sequences, FiniteSets, TLC

\* ------------------------------------------------------------------ bounds
NumRoles    == 2   \* roles of the guild
NumChannels == 1   \* textable channels of the guild
MaxPinged   == 2   \* longest pinged_role_ids list explored
NumSessions == 2   \* session slots (Spec activates the first one)
NumGuilds   == 2   \* guilds with configuration rows
MaxPages    == 4   \* most pages a paginated traceback is split into
MaxSteps    == 7   \* steps explored when two sessions interleave
NumPerms    == 2   \* permission bits besides ADMINISTRATOR
MaxPosition == 2   \* highest position of a top role

Sessions == 1..NumSessions
Guilds   == 1..NumGuilds
Roles    == 1..NumRoles
Channels == 1..NumChannels
NoMsg    == 0          \* Python None where a message is expected
NewMsg   == 1          \* the message a session's ctx.respond creates
NoId     == 0          \* SQL NULL / Python None where an id is expected
NoLimit  == -1         \* no cap on the number of steps
None     == "None"     \* Python None where a menu name is expected

\* Labels of etc.settings_static (the file is not part of the sources).
ModOptions == {"dm_users_on_punish", "clean_up_mod_commands"}
LogEvents  == {"ban"}

\* --------------------------------------------------------------- utilities
Range(q) == {q[i] : i \in 1..Len(q)}

\* list.remove(x): drops the first occurrence of x.
RECURSIVE RemoveFirst(_, _)
RemoveFirst(q, x) ==
    IF q = <<>> THEN <<>>
    ELSE IF Head(q) = x THEN Tail(q)
    ELSE <<Head(q)>> \o RemoveFirst(Tail(q), x)

SeqsUpTo(S, n) == UNION {[1..k -> S] : k \in 0..n}

\* One observable effect of a step, in program order.
Ev(k, a, n, b, l) == [k |-> k, a |-> a, c |-> "", n |-> n, b |-> b, l |-> l]
Call(name)        == Ev("call", name, 0, FALSE, <<>>)
\* A statement handed to the database: table, column and the value bound.
Write(table, col, n, b, l) ==
    [k |-> "write", a |-> table, c |-> col, n |-> n, b |-> b, l |-> l]

\* ------------------------------------------------------------ the database
ModDefault   == [o \in ModOptions |-> FALSE]
ColorDefault == TRUE

NoModRow == [exists |-> FALSE, opt |-> ModDefault]
NoLogRow == [exists |-> FALSE, color |-> ColorDefault,
             channels |-> [e \in LogEvents |-> NoId]]
NoRepRow == [exists |-> FALSE, is_enabled |-> FALSE, channel_id |-> NoId,
             roles_null |-> TRUE, pinged_role_ids |-> <<>>]

ModRows == {NoModRow} \cup
           {[exists |-> TRUE, opt |-> f] : f \in [ModOptions -> BOOLEAN]}
LogRows == {NoLogRow} \cup
           {[exists |-> TRUE, color |-> c, channels |-> f] :
               c \in BOOLEAN, f \in [LogEvents -> Channels \cup {NoId}]}
\* Rows the reports table can hold: is_enabled is only ever written through
\* the Enabled button, which is disabled while no channel is stored.
RepRows == {NoRepRow} \cup
           {r \in {[exists |-> TRUE, is_enabled |-> e, channel_id |-> c,
                    roles_null |-> n, pinged_role_ids |-> l] :
                      e \in BOOLEAN, c \in Channels \cup {NoId}, n \in BOOLEAN,
                      l \in SeqsUpTo(Roles, MaxPinged)} :
               /\ r.is_enabled => r.channel_id # NoId
               /\ r.roles_null => r.pinged_role_ids = <<>>}

\* mod.d.actions.get_settings: the stored flags, or the defaults.
get_settings(c) == IF c.mod.exists THEN c.mod.opt ELSE ModDefault

\* logging.d.actions.is_color_enabled
is_color_enabled(c) == IF c.log.exists THEN c.log.color ELSE ColorDefault

\* logging.d.actions.get_log_channel_ids_view
get_log_channel_ids_view(c) == c.log.channels


\* ------------------------------------------------------------------- state
VARIABLES
    active,    \* sessions that may run
    guildOf,   \* ctx.guild_id of each session
    pc,        \* where each session's coroutine chain is suspended
    parent,    \* SettingsContext.parent
    message,   \* the `message` local of the suspended handler
    shown,     \* the Discord message that last received the menu
    view,      \* the controls of the suspended view and the handler's locals
    pending,   \* settings_logging's log_event while its prompt is open
    deleted,   \* messages for which message.delete() was called
    gone,      \* messages Discord has actually deleted
    quit,      \* timeout_or_quit has been called in the session
    sel,       \* the value the last step started from
    ev,        \* what the last step did, in program order
    db,        \* per guild: the mod_config, log_config and reports rows
    cache,     \* per guild: what db_cache returns for those tables
    fuel,      \* steps still to be explored, or NoLimit
    eh,        \* the error reporter (see below)
    ch         \* a call of helpers.can_harm: its arguments and its outcome

svars == <<active, guildOf, pc, parent, message, shown, view, pending,
           deleted, gone, quit, sel, ev, db, cache, fuel>>
vars  == <<active, guildOf, pc, parent, message, shown, view, pending,
           deleted, gone, quit, sel, ev, db, cache, fuel, eh, ch>>

\* Screens on which a view is waiting, and open helpers.ask prompts.
MenuScreens   == {"Main", "Moderation", "Logging", "Reports"}
ViewScreens   == MenuScreens \cup {"Error"}
NestedScreens == {"Moderation", "Logging", "Reports", "Error"}
Prompts       == {"LogAsk", "AskChannel", "AskAddRole", "AskRemoveRole"}
Ended         == {"done", "crashed"}

BlankView ==
    [screen |-> "none", nested |-> FALSE, mod |-> ModDefault,
     color |-> FALSE, enabled |-> FALSE, enabled_disabled |-> FALSE,
     add_disabled |-> FALSE, remove_disabled |-> FALSE,
     pinged_roles |-> <<>>, unadded_roles |-> {}]

NoSel == [at |-> "none", v |-> "none", b |-> FALSE, n |-> 0]
Sel(at, v, b, n) == [at |-> at, v |-> v, b |-> b, n |-> n]

\* The running chain of session s: its context, its locals and the guild's
\* rows.  pc = "run" while statements still execute.
Frame(s) ==
    [pc |-> "run", parent |-> parent[s], message |-> message[s],
     shown |-> shown[s], view |-> view[s], pending |-> pending[s],
     deleted |-> deleted[s], gone |-> gone[s], quit |-> quit[s],
     ev |-> <<>>, db |-> db[guildOf[s]], cache |-> cache[guildOf[s]]]

Log(F, e) == IF F.pc # "run" THEN F ELSE [F EXCEPT !.ev = Append(@, e)]

\* An exception nobody in the chain catches.
Raise(F, exc) ==
    IF F.pc # "run" THEN F
    ELSE [F EXCEPT !.ev = Append(@, Ev("raise", exc, 0, FALSE, <<>>)),
                   !.pc = "crashed"]

\* helpers.maybe_edit: hikari's NotFound/Forbidden/HTTP errors are swallowed
\* (nd.editOk = FALSE); None has no .edit, which is an AttributeError.
maybe_edit(F, msg, nd) ==
    IF F.pc # "run" THEN F
    ELSE IF msg = NoMsg THEN Raise(F, "AttributeError")
    ELSE LET ok == nd.editOk /\ msg \notin F.gone
         IN [F EXCEPT !.ev = Append(@, Ev("edit", F.view.screen, msg, ok, <<>>)),
                      !.shown = IF ok THEN msg ELSE @]

\* helpers.maybe_delete
maybe_delete(F, msg, nd) ==
    IF F.pc # "run" THEN F
    ELSE IF msg = NoMsg THEN Raise(F, "AttributeError")
    ELSE LET ok == nd.delOk /\ msg \notin F.gone
         IN [F EXCEPT !.ev = Append(@, Ev("delete", "", msg, ok, <<>>)),
                      !.deleted = @ \cup {msg},
                      !.gone = IF ok THEN @ \cup {msg} ELSE @]

\* ctx.respond(...) followed by proxy.message(): a new message.  A handler
\* responds only after it lost the reference to the message before, which
\* nothing can edit or delete any more: the new message takes over its name.
respond(F) ==
    IF F.pc # "run" THEN F
    ELSE [F EXCEPT !.shown = NewMsg,
                   !.deleted = @ \ {NewMsg}, !.gone = @ \ {NewMsg},
                   !.ev = Append(@, Ev("respond", F.view.screen, NewMsg, TRUE, <<>>))]

\* view.start(message); await view.wait().  miru is not part of the
\* sources: started on None it either raises (nd.startOk = FALSE) or goes on
\* listening.
view_wait(F, msg, nd) ==
    IF F.pc # "run" THEN F
    ELSE IF msg = NoMsg /\ ~nd.startOk THEN Raise(F, "TypeError")
    ELSE [F EXCEPT !.ev = Append(@, Ev("wait", F.view.screen, msg, TRUE, <<>>)),
                   !.message = msg, !.pc = F.view.screen]

\* ctx.app.db_cache.refresh(table=..., guild_id=ctx.guild_id)
refresh(F, table) ==
    IF F.pc # "run" THEN F
    ELSE [F EXCEPT !.ev = Append(@, Ev("refresh", table, 0, FALSE, <<>>)),
                   !.cache = [@ EXCEPT ![table] = F.db[table]]]

\* ctx.app.db_cache.get(table="reports", guild_id=ctx.guild_id)
db_cache_get(F, table) == F.cache[table]

\* An id stored for a role that has since been deleted from the guild.
GoneRole == NumRoles + 1

\* ctx.app.cache.get_role(role_id): the role, or None when there is none.
get_role(role_id) == IF role_id \in Roles THEN role_id ELSE NoId


\* --------------------------------------------------------- SQL statements
\* INSERT INTO mod_config (guild_id, option) ... ON CONFLICT DO UPDATE
upsert_mod(F, option, value) ==
    IF F.pc # "run" THEN F
    ELSE [F EXCEPT
            !.ev = Append(@, Write("mod", option, 0, value, <<>>)),
            !.db.mod = [exists |-> TRUE,
                        opt |-> [(IF @.exists THEN @.opt ELSE ModDefault)
                                    EXCEPT ![option] = value]]]

\* UPDATE log_config SET color = $1 WHERE guild_id = $2
update_log_color(F, value) ==
    IF F.pc # "run" THEN F
    ELSE [F EXCEPT
            !.ev = Append(@, Write("log", "color", 0, value, <<>>)),
            !.db.log = IF @.exists THEN [@ EXCEPT !.color = value] ELSE @]

\* logging.d.actions.set_log_channel: stores the channel of one event and
\* refreshes the cache of log_config.
set_log_channel(F, log_event, channel_id) ==
    IF F.pc # "run" THEN F
    ELSE refresh(
           [F EXCEPT
              !.ev = Append(@, Write("log", log_event, channel_id, FALSE, <<>>)),
              !.db.log = [(IF @.exists THEN @ ELSE [NoLogRow EXCEPT !.exists = TRUE])
                            EXCEPT !.channels[log_event] = channel_id]],
           "log")

\* INSERT INTO reports (is_enabled, guild_id) ... ON CONFLICT DO UPDATE
upsert_reports_enabled(F, value) ==
    IF F.pc # "run" THEN F
    ELSE [F EXCEPT
            !.ev = Append(@, Write("reports", "is_enabled", 0, value, <<>>)),
            !.db.reports = [@ EXCEPT !.exists = TRUE, !.is_enabled = value]]

\* INSERT INTO reports (channel_id, guild_id) ... ON CONFLICT DO UPDATE
upsert_reports_channel(F, channel_id) ==
    IF F.pc # "run" THEN F
    ELSE [F EXCEPT
            !.ev = Append(@, Write("reports", "channel_id", channel_id, FALSE, <<>>)),
            !.db.reports = [@ EXCEPT !.exists = TRUE, !.channel_id = channel_id]]

\* INSERT INTO reports (pinged_role_ids, guild_id) ... ON CONFLICT DO UPDATE
upsert_reports_roles(F, role_ids) ==
    IF F.pc # "run" THEN F
    ELSE [F EXCEPT
            !.ev = Append(@, Write("reports", "pinged_role_ids", 0, FALSE, role_ids)),
            !.db.reports = [@ EXCEPT !.exists = TRUE, !.roles_null = FALSE,
                                     !.pinged_role_ids = role_ids]]


\* ------------------------------------------------------------ the handlers
\* menu_actions without the "Auto-Moderation" entry, which the main menu
\* still offers as a button.
menu_actions_without_automod ==
    [k \in {"Main", "Moderation", "Logging", "Reports",
            "Timeout", "Quit", "Back"} |->
        CASE k = "Main"            -> "settings_main"
          [] k = "Moderation"      -> "settings_mod"
          [] k = "Logging"         -> "settings_logging"
          [] k = "Reports"         -> "settings_report"
          [] k = "Timeout"         -> "timeout_or_quit"
          [] k = "Quit"            -> "timeout_or_quit"
          [] k = "Back"            -> "back"]

\* Keys of menu_actions and the function each one is bound to.
menu_actions ==
    [k \in {"Main", "Moderation", "Auto-Moderation", "Logging", "Reports",
            "Timeout", "Quit", "Back"} |->
        CASE k = "Main"            -> "settings_main"
          [] k = "Moderation"      -> "settings_mod"
          [] k = "Auto-Moderation" -> "settings_automod"
          [] k = "Logging"         -> "settings_logging"
          [] k = "Reports"         -> "settings_report"
          [] k = "Timeout"         -> "timeout_or_quit"
          [] k = "Quit"            -> "timeout_or_quit"
          [] k = "Back"            -> "back"]

\* settings_main up to `await view.wait()`.
settings_main(F, msg, nd) ==
    IF F.pc # "run" THEN F
    ELSE LET F1 == [Log(F, Call("settings_main")) EXCEPT
                       !.view = [BlankView EXCEPT !.screen = "Main"],
                       !.parent = None]
         IN IF msg # NoMsg
            THEN \* message = await helpers.maybe_edit(...): None
                 view_wait(maybe_edit(F1, msg, nd), NoMsg, nd)
            ELSE view_wait(respond(F1), NewMsg, nd)

\* settings_mod up to `await view.wait()`.
settings_mod(F, msg, nd) ==
    IF F.pc # "run" THEN F
    ELSE LET mod_settings == get_settings(F.cache)
             F1 == [Log(F, Call("settings_mod")) EXCEPT
                       !.view = [BlankView EXCEPT !.screen = "Moderation",
                                                  !.nested = TRUE,
                                                  !.mod = mod_settings],
                       !.parent = "Main"]
         IN \* message = await helpers.maybe_edit(...): None
            view_wait(maybe_edit(F1, msg, nd), NoMsg, nd)

\* settings_automod: `pass`.
settings_automod(F, msg, nd) ==
    IF F.pc # "run" THEN F ELSE Log(F, Call("settings_automod"))

\* settings_logging up to `await view.wait()`.
settings_logging(F, msg, nd) ==
    IF F.pc # "run" THEN F
    ELSE LET is_color == is_color_enabled(F.cache)
             F1 == [Log(F, Call("settings_logging")) EXCEPT
                       !.view = [BlankView EXCEPT !.screen = "Logging",
                                                  !.nested = TRUE,
                                                  !.color = is_color],
                       !.parent = "Main"]
         IN \* message = await helpers.maybe_edit(...): None
            view_wait(maybe_edit(F1, msg, nd), NoMsg, nd)

\* settings_report with the Enabled button never disabled.
settings_report_enabled_always(F, msg, nd) ==
    IF F.pc # "run" THEN F
    ELSE LET got          == db_cache_get(F, "reports")
             records      == IF got.exists THEN got ELSE NoRepRow
             pinged_roles == IF ~records.roles_null /\ records.pinged_role_ids # <<>>
                             THEN [i \in 1..Len(records.pinged_role_ids) |->
                                      get_role(records.pinged_role_ids[i])]
                             ELSE <<>>
             unadded      == Roles \ Range(pinged_roles)
             channel      == records.channel_id
             F1 == [Log(F, Call("settings_report")) EXCEPT
                       !.view = [BlankView EXCEPT
                                   !.screen = "Reports",
                                   !.nested = TRUE,
                                   !.enabled = IF channel # NoId
                                               THEN records.is_enabled ELSE FALSE,
                                   !.enabled_disabled = FALSE,
                                   !.add_disabled = (unadded = {}),
                                   !.remove_disabled = (pinged_roles = <<>>),
                                   !.pinged_roles = pinged_roles,
                                   !.unadded_roles = unadded],
                       !.parent = "Main"]
         IN view_wait(maybe_edit(F1, msg, nd), msg, nd)

\* settings_report up to `await view.wait()`.
settings_report(F, msg, nd) ==
    IF F.pc # "run" THEN F
    ELSE LET got          == db_cache_get(F, "reports")
             records      == IF got.exists THEN got ELSE NoRepRow
             pinged_roles == IF ~records.roles_null /\ records.pinged_role_ids # <<>>
                             THEN [i \in 1..Len(records.pinged_role_ids) |->
                                      get_role(records.pinged_role_ids[i])]
                             ELSE <<>>
             unadded      == Roles \ Range(pinged_roles)
             channel      == records.channel_id
             F1 == [Log(F, Call("settings_report")) EXCEPT
                       !.view = [BlankView EXCEPT
                                   !.screen = "Reports",
                                   !.nested = TRUE,
                                   !.enabled = IF channel # NoId
                                               THEN records.is_enabled ELSE FALSE,
                                   !.enabled_disabled = (channel = NoId),
                                   !.add_disabled = (unadded = {}),
                                   !.remove_disabled = (pinged_roles = <<>>),
                                   !.pinged_roles = pinged_roles,
                                   !.unadded_roles = unadded],
                       !.parent = "Main"]
         IN view_wait(maybe_edit(F1, msg, nd), msg, nd)

\* error_view_handler without `ctx.parent = return_to`.
error_view_handler_keeps_parent(F, msg, return_to, nd) ==
    IF F.pc # "run" THEN F
    ELSE LET F1 == [Log(F, Call("error_view_handler")) EXCEPT
                       !.view = [BlankView EXCEPT !.screen = "Error",
                                                  !.nested = TRUE]]
         IN view_wait(maybe_edit(F1, msg, nd), msg, nd)

\* error_view_handler up to `await view.wait()`.
error_view_handler(F, msg, return_to, nd) ==
    IF F.pc # "run" THEN F
    ELSE LET F1 == [Log(F, Call("error_view_handler")) EXCEPT
                       !.parent = return_to,
                       !.view = [BlankView EXCEPT !.screen = "Error",
                                                  !.nested = TRUE]]
         IN view_wait(maybe_edit(F1, msg, nd), msg, nd)

timeout_or_quit(F, msg, nd) ==
    IF F.pc # "run" THEN F
    ELSE maybe_delete([Log(F, Call("timeout_or_quit")) EXCEPT !.quit = TRUE],
                      msg, nd)

RECURSIVE Dispatch(_, _, _, _)

\* back that always returns to the main menu instead of ctx.parent.
back_to_main(F, msg, nd) ==
    IF F.pc # "run" THEN F
    ELSE LET F1 == Log(F, Call("back"))
         IN IF F1.parent # None THEN Dispatch("Main", F1, msg, nd) ELSE F1

back(F, msg, nd) ==
    IF F.pc # "run" THEN F
    ELSE LET F1 == Log(F, Call("back"))
         IN IF F1.parent # None THEN Dispatch(F1.parent, F1, msg, nd) ELSE F1

\* await menu_actions[key](ctx, message)
Dispatch(key, F, msg, nd) ==
    IF F.pc # "run" THEN F
    ELSE IF key \notin DOMAIN menu_actions THEN Raise(F, "KeyError")
    ELSE LET h == menu_actions[key]
         IN CASE h = "settings_main"    -> settings_main(F, msg, nd)
              [] h = "settings_mod"     -> settings_mod(F, msg, nd)
              [] h = "settings_automod" -> settings_automod(F, msg, nd)
              [] h = "settings_logging" -> settings_logging(F, msg, nd)
              [] h = "settings_report"  -> settings_report(F, msg, nd)
              [] h = "timeout_or_quit"  -> timeout_or_quit(F, msg, nd)
              [] h = "back"             -> back(F, msg, nd)


\* helpers.ask(ctx, options=..., message=message): the chain suspends in the
\* prompt; it later yields a resolved object, raises TypeError or raises
\* asyncio.TimeoutError.
ask(F, prompt) ==
    IF F.pc # "run" THEN F
    ELSE [F EXCEPT !.ev = Append(@, Ev("ask", prompt, F.message, FALSE, <<>>)),
                   !.pc = prompt]

\* settings_main and error_view_handler after `await view.wait()`.
settings_main_resume(F, value, nd) == Dispatch(value.v, F, F.message, nd)

error_view_handler_resume(F, value, nd) == Dispatch(value.v, F, F.message, nd)

\* settings_mod after `await view.wait()`.
settings_mod_resume(F, value, nd) ==
    IF value.v \in DOMAIN menu_actions
    THEN Dispatch(value.v, F, F.message, nd)
    ELSE LET option == value.v     \* get_key(mod_settings_strings, view.value)
             F1 == upsert_mod(F, option, ~F.view.mod[option])
             F2 == refresh(F1, "mod")
         IN settings_mod(F2, F2.message, nd)

\* settings_logging after `await view.wait()`, up to helpers.ask.
settings_logging_resume(F, value, nd) ==
    IF value.v \in DOMAIN menu_actions
    THEN Dispatch(value.v, F, F.message, nd)
    ELSE IF value.v = "Color logs"
    THEN LET F1 == update_log_color(F, value.b)
             F2 == refresh(F1, "log")
         IN settings_logging(F2, F2.message, nd)
    ELSE ask([F EXCEPT !.pending = value.v], "LogAsk")

\* settings_logging from the outcome of helpers.ask.
settings_logging_ask(F, res, nd) ==
    CASE res.v = "TypeError" ->
            error_view_handler(F, F.message, "Logging", nd)
      [] res.v = "TimeoutError" ->
            Dispatch("Quit", F, F.message, nd)
      [] OTHER ->
            LET channel_id == res.n    \* None when "disable" was chosen
                F1 == set_log_channel(F, F.pending, channel_id)
            IN settings_logging(F1, F1.message, nd)

\* The statements after the role prompts without the db_cache.refresh.
settings_report_tail_without_refresh(F, pinged_roles, nd) ==
    LET F1 == upsert_reports_roles(F, pinged_roles)
    IN settings_report(F1, F1.message, nd)

\* settings_report, the statements after the role prompts.
settings_report_tail(F, pinged_roles, nd) ==
    IF NoId \in Range(pinged_roles)
    THEN Raise(F, "AttributeError")     \* role.id of None
    ELSE LET F1 == upsert_reports_roles(F, pinged_roles)
             F2 == refresh(F1, "reports")
         IN settings_report(F2, F2.message, nd)

\* settings_report after `await view.wait()`, up to helpers.ask.
settings_report_resume(F, value, nd) ==
    IF value.v \in DOMAIN menu_actions
    THEN Dispatch(value.v, F, F.message, nd)
    ELSE IF value.v = "Enabled"
    THEN LET F1 == upsert_reports_enabled(F, value.b)
             F2 == refresh(F1, "reports")
         IN settings_report(F2, F2.message, nd)
    ELSE IF value.v = "Set Channel" THEN ask(F, "AskChannel")
    ELSE IF value.v = "Add Role"    THEN ask(F, "AskAddRole")
    ELSE IF value.v = "Remove Role"
    THEN IF NoId \in Range(F.view.pinged_roles)
         THEN Raise(F, "AttributeError")     \* role.name of None
         ELSE ask(F, "AskRemoveRole")
    ELSE settings_report_tail(F, F.view.pinged_roles, nd)

\* settings_report, "Set Channel", from the outcome of helpers.ask.
settings_report_set_channel(F, res, nd) ==
    CASE res.v = "TypeError" ->
            error_view_handler(F, F.message, "Reports", nd)
      [] res.v = "TimeoutError" ->
            \* the except branch does not return
            settings_report_tail(Dispatch("Quit", F, F.message, nd),
                                 F.view.pinged_roles, nd)
      [] OTHER ->
            LET F1 == upsert_reports_channel(F, res.n)
                F2 == refresh(F1, "reports")
            IN settings_report(F2, F2.message, nd)

\* settings_report's "Add Role" if the chosen role were not appended.
settings_report_add_role_without_append(F, res, nd) ==
    CASE res.v = "TypeError" ->
            error_view_handler(F, F.message, "Reports", nd)
      [] res.v = "TimeoutError" ->
            settings_report_tail(Dispatch("Quit", F, F.message, nd),
                                 F.view.pinged_roles, nd)
      [] OTHER ->
            settings_report_tail(F, F.view.pinged_roles, nd)

\* settings_report, "Add Role", from the outcome of helpers.ask.
settings_report_add_role(F, res, nd) ==
    CASE res.v = "TypeError" ->
            error_view_handler(F, F.message, "Reports", nd)
      [] res.v = "TimeoutError" ->
            settings_report_tail(Dispatch("Quit", F, F.message, nd),
                                 F.view.pinged_roles, nd)
      [] OTHER ->
            settings_report_tail(F, Append(F.view.pinged_roles, res.n), nd)

\* settings_report, "Remove Role", from the outcome of helpers.ask.
settings_report_remove_role(F, res, nd) ==
    CASE res.v = "TimeoutError" ->
            settings_report_tail(Dispatch("Quit", F, F.message, nd),
                                 F.view.pinged_roles, nd)
      [] res.v = "value" /\ res.n \in Range(F.view.pinged_roles) ->
            settings_report_tail(F, RemoveFirst(F.view.pinged_roles, res.n), nd)
      [] OTHER ->     \* TypeError from ask, or raised for a role not pinged
            error_view_handler(F, F.message, "Reports", nd)


\* ------------------------------------------------------- helpers.can_harm
\* hikari.Permissions as sets of bits; bit 0 is ADMINISTRATOR.
Administrator == 0
Permissions   == SUBSET (0..NumPerms)

\* get_top_role(): the position of the top role, or None.
NoRole   == -1
TopRoles == {NoRole} \cup 0..MaxPosition

\* me: the permissions lightbulb.utils.permissions_for gives and the top role.
Mes == [perms : Permissions, top : TopRoles]
\* member: whether get_guild() gives a guild, whether member.id is its
\* owner_id, and the top role.
Members == {mb \in [guild : BOOLEAN, owner : BOOLEAN, top : TopRoles] :
                mb.owner => mb.guild}

includes_permissions(permissions, should_include) ==
    IF Administrator \in permissions THEN TRUE
    ELSE LET missing_perms == should_include \ permissions
         IN IF missing_perms # {} THEN FALSE ELSE TRUE

\* "True", "False", or the AssertionError of a missing top role.
is_above(me, member) ==
    IF me.top = NoRole \/ member.top = NoRole THEN "AssertionError"
    ELSE IF me.top > member.top THEN "True"
    ELSE "False"

\* The outcome of can_harm: "True", "False", or the exception it raises.
\* In the owner branch the source evaluates errors.RoleHierarchyError
\* without raising it, so both values of raise_error return False there.
can_harm(me, member, permission, raise_error) ==
    IF ~includes_permissions(me.perms, permission)
    THEN IF raise_error THEN "BotMissingRequiredPermission" ELSE "False"
    ELSE IF ~member.guild THEN "True"
    ELSE IF member.owner THEN "False"
    ELSE LET above == is_above(me, member)
         IN IF above = "AssertionError" THEN above
            ELSE IF above = "False"
                 THEN IF raise_error THEN "RoleHierarchyError" ELSE "False"
                 ELSE "True"

NoCall == [me |-> [perms |-> {}, top |-> NoRole],
           member |-> [guild |-> FALSE, owner |-> FALSE, top |-> NoRole],
           permission |-> {}, raise_error |-> FALSE, result |-> "none"]

\* ------------------------------------------------------ the error reporter
\* Exception classes the handler tells apart, with their base class.
ErrorClasses == {"MissingRequiredPermission", "BotMissingRequiredPermission",
                 "CheckFailure", "CommandIsOnCooldown",
                 "CommandInvocationError", "LightbulbError"}
BaseOf(cls) ==
    IF cls \in {"MissingRequiredPermission", "BotMissingRequiredPermission"}
    THEN "CheckFailure" ELSE "LightbulbError"

RECURSIVE isinstance(_, _)
isinstance(cls, of) ==
    \/ cls = of
    \/ cls # "LightbulbError" /\ isinstance(BaseOf(cls), of)

\* error.original of a CommandInvocationError.
Originals == {"TimeoutError", "InternalServerError", "ForbiddenError",
              "RoleHierarchyError", "ValueError"}
NoOriginal == "none"

\* Errors an error event can carry.
Errors == {[cls |-> c, original |-> NoOriginal] :
              c \in ErrorClasses \ {"CommandInvocationError"}}
     \cup {[cls |-> "CommandInvocationError", original |-> o] : o \in Originals}

\* application_error_handler, the isinstance ladder: the embed it builds and
\* whether the branch returns with ctx.respond.
ErrorBranch(error) ==
    IF isinstance(error.cls, "CheckFailure")
    THEN IF isinstance(error.cls, "MissingRequiredPermission")
         THEN [title |-> "Missing Permissions", returns |-> TRUE]
         ELSE IF isinstance(error.cls, "BotMissingRequiredPermission")
         THEN [title |-> "Bot Missing Permissions", returns |-> TRUE]
         ELSE [title |-> "", returns |-> FALSE]
    ELSE IF isinstance(error.cls, "CommandIsOnCooldown")
    THEN [title |-> "Cooldown Pending", returns |-> TRUE]
    ELSE IF isinstance(error.cls, "CommandInvocationError")
    THEN CASE error.original = "TimeoutError" ->
                [title |-> "Action timed out", returns |-> TRUE]
           [] error.original = "InternalServerError" ->
                [title |-> "Discord Server Error", returns |-> TRUE]
           [] error.original = "ForbiddenError" ->
                [title |-> "Forbidden", returns |-> FALSE]
           [] error.original = "RoleHierarchyError" ->
                [title |-> "Role Hiearchy Error", returns |-> TRUE]
           [] OTHER -> [title |-> "", returns |-> FALSE]
    ELSE [title |-> "", returns |-> FALSE]

\* ctx.respond(embed=embed, flags=hikari.MessageFlag.EPHEMERAL)
Response(title) == [title |-> title, ephemeral |-> TRUE]

EhIdle(channel) ==
    [pc |-> "idle", config |-> channel, error |-> [cls |-> "none", original |-> NoOriginal],
     ctx |-> FALSE, event |-> FALSE,
     header |-> "none", logged |-> FALSE, npages |-> 0, page |-> 0,
     sends |-> <<>>, log_errors |-> 0, responses |-> <<>>, raised |-> "none"]

\* application_error_handler after the ladder: the generic embed is built
\* and, once log_error_to_homeguild is back, sent.
unhandled_respond(E) ==
    [E EXCEPT !.responses = Append(@, Response("Unhandled exception")),
              !.pc = "done"]

\* log_error_to_homeguild without the `if not channel_id: return`.
log_error_to_homeguild_always_sends(E, ctx, event, npages) ==
    [E EXCEPT !.logged = TRUE, !.header = "command", !.npages = npages,
              !.ctx = ctx, !.event = event, !.pc = "sending", !.page = 1]

\* log_error_to_homeguild up to the first create_message.  ctx and event
\* tell whether the argument was given; npages is what
\* paginator.build_pages() yields for the header and the traceback lines.
log_error_to_homeguild(E, ctx, event, npages) ==
    LET header == IF ctx THEN "command" ELSE IF event THEN "listener" ELSE "uncaught"
        E1 == [E EXCEPT !.logged = TRUE, !.header = header, !.npages = npages,
                        !.ctx = ctx, !.event = event]
    IN IF ~ctx
       THEN \* ctx.app.config on None
            [E1 EXCEPT !.raised = "AttributeError", !.pc = "crashed"]
       ELSE IF E1.config = NoId
       THEN [E1 EXCEPT !.pc = "logged"]
       ELSE [E1 EXCEPT !.pc = "sending", !.page = 1]

\* application_error_handler up to its first suspension in create_message,
\* or to its end.
application_error_handler(E, error, npages) ==
    LET branch == ErrorBranch(error)
        E1     == [E EXCEPT !.error = error]
    IN IF branch.returns
       THEN [E1 EXCEPT !.responses = Append(@, Response(branch.title)),
                       !.pc = "done"]
       ELSE LET E2 == log_error_to_homeguild(E1, TRUE, FALSE, npages)
            IN IF E2.pc = "logged" THEN unhandled_respond(E2) ELSE E2

\* The loop over the pages without its try/except: a failed create_message
\* leaves the handler.
send_page_propagates(E, ok) ==
    LET E1 == [E EXCEPT !.sends = Append(@, [page |-> E.page, ok |-> ok,
                                              channel |-> E.config])]
    IN IF ~ok THEN [E1 EXCEPT !.raised = "HTTPError", !.pc = "crashed"]
       ELSE IF E.page < E.npages THEN [E1 EXCEPT !.page = @ + 1]
       ELSE unhandled_respond(E1)

\* One turn of the loop over paginator.build_pages(): create_message either
\* succeeds or raises, and the except clause logs and goes on.
send_page(E, ok) ==
    LET E1 == [E EXCEPT !.sends = Append(@, [page |-> E.page, ok |-> ok,
                                              channel |-> E.config]),
                        !.log_errors = IF ok THEN @ ELSE @ + 1]
    IN IF E.page < E.npages
       THEN [E1 EXCEPT !.page = @ + 1]
       ELSE IF E.error.cls = "none"
       THEN [E1 EXCEPT !.pc = "logged"]    \* called on its own: returns
       ELSE unhandled_respond(E1)          \* back in application_error_handler

\* ------------------------------------------------------------- the session
\* Outcomes of the Discord calls of one step.
ND == [editOk : BOOLEAN, startOk : BOOLEAN, delOk : BOOLEAN]

\* Rows a guild may hold when a session starts.  The three tables never
\* read each other, so the start varies one table at a time.
EmptyRows == [mod |-> NoModRow, log |-> NoLogRow, reports |-> NoRepRow]
GuildRows == {[EmptyRows EXCEPT !.mod = r] : r \in ModRows}
        \cup {[EmptyRows EXCEPT !.log = r] : r \in LogRows}
        \cup {[EmptyRows EXCEPT !.reports = r] : r \in RepRows}
InitDb(used) == {d \in [Guilds -> GuildRows] :
                   \A g \in Guilds \ used : d[g] = EmptyRows}

InitSessions ==
    /\ pc      = [s \in Sessions |-> "idle"]
    /\ parent  = [s \in Sessions |-> None]
    /\ message = [s \in Sessions |-> NoMsg]
    /\ shown   = [s \in Sessions |-> NoMsg]
    /\ view    = [s \in Sessions |-> BlankView]
    /\ pending = [s \in Sessions |-> "none"]
    /\ deleted = [s \in Sessions |-> {}]
    /\ gone    = [s \in Sessions |-> {}]
    /\ quit    = [s \in Sessions |-> FALSE]
    /\ sel     = [s \in Sessions |-> NoSel]
    /\ ev      = [s \in Sessions |-> <<>>]


Init ==
    /\ active = {1}
    /\ guildOf = [s \in Sessions |-> 1]
    /\ InitSessions
    /\ db \in InitDb({guildOf[s] : s \in active})
    /\ cache = db
    /\ fuel = NoLimit
    /\ eh = EhIdle(NoId)
    /\ ch = NoCall

\* The step of a session if parent were one module-level value instead of
\* a field of each SettingsContext.
Commit_shared_parent(s, R, selection) ==
    /\ fuel # 0
    /\ fuel' = IF fuel = NoLimit THEN NoLimit ELSE fuel - 1
    /\ pc'      = [pc EXCEPT ![s] = IF R.pc = "run" THEN "done" ELSE R.pc]
    /\ parent'  = [t \in Sessions |-> R.parent]
    /\ message' = [message EXCEPT ![s] = R.message]
    /\ shown'   = [shown EXCEPT ![s] = R.shown]
    /\ view'    = [view EXCEPT ![s] = R.view]
    /\ pending' = [pending EXCEPT ![s] = R.pending]
    /\ deleted' = [deleted EXCEPT ![s] = R.deleted]
    /\ gone'    = [gone EXCEPT ![s] = R.gone]
    /\ quit'    = [quit EXCEPT ![s] = R.quit]
    /\ sel'     = [sel EXCEPT ![s] = selection]
    /\ ev'      = [ev EXCEPT ![s] = R.ev]
    /\ db'      = [db EXCEPT ![guildOf[s]] = R.db]
    /\ cache'   = [cache EXCEPT ![guildOf[s]] = R.cache]
    /\ UNCHANGED <<active, guildOf, eh, ch>>

\* The chain of session s has run to its next suspension, return or crash.
Commit(s, R, selection) ==
    /\ fuel # 0
    /\ fuel' = IF fuel = NoLimit THEN NoLimit ELSE fuel - 1
    /\ pc'      = [pc EXCEPT ![s] = IF R.pc = "run" THEN "done" ELSE R.pc]
    /\ parent'  = [parent EXCEPT ![s] = R.parent]
    /\ message' = [message EXCEPT ![s] = R.message]
    /\ shown'   = [shown EXCEPT ![s] = R.shown]
    /\ view'    = [view EXCEPT ![s] = R.view]
    /\ pending' = [pending EXCEPT ![s] = R.pending]
    /\ deleted' = [deleted EXCEPT ![s] = R.deleted]
    /\ gone'    = [gone EXCEPT ![s] = R.gone]
    /\ quit'    = [quit EXCEPT ![s] = R.quit]
    /\ sel'     = [sel EXCEPT ![s] = selection]
    /\ ev'      = [ev EXCEPT ![s] = R.ev]
    /\ db'      = [db EXCEPT ![guildOf[s]] = R.db]
    /\ cache'   = [cache EXCEPT ![guildOf[s]] = R.cache]
    /\ UNCHANGED <<active, guildOf, eh, ch>>

\* Outcomes the step of s started by value v can observe.  Only
\* timeout_or_quit deletes; a view's Quit or Timeout renders nothing; with
\* message = None every edit, every delete and every start but the one after
\* ctx.respond raises; a view is started on None only by settings_main,
\* settings_mod and settings_logging.  The choices a step cannot observe are
\* fixed, so that no step is drawn twice.
Observes(s, v, nd) ==
    /\ nd.delOk   \/ (v \in {"Quit", "Timeout", "TimeoutError"} /\ message[s] # NoMsg)
    /\ nd.editOk  \/ (v \notin {"Quit", "Timeout"} /\ message[s] # NoMsg)
    /\ nd.startOk \/ /\ message[s] # NoMsg
                     /\ \/ v \in {"Moderation", "Logging"}
                        \/ v = "Back" /\ parent[s] = "Main"

\* A component of the waiting view can be used while its message exists;
\* the view's own timeout needs nothing.
CanUse(s, v) == v = "Timeout" \/ shown[s] \notin gone[s]

\* /settings: settings_cmd builds the context and calls settings_main(ctx).
Invoke(s) ==
    /\ s \in active /\ pc[s] = "idle"
    /\ \E nd \in ND :
         /\ Observes(s, "settings", nd)
         /\ Commit(s, settings_main([Frame(s) EXCEPT !.parent = None], NoMsg, nd),
                Sel("idle", "settings", FALSE, 0))

MainSelect(s) ==
    /\ s \in active /\ pc[s] = "Main"
    /\ \E v \in {"Moderation", "Auto-Moderation", "Logging", "Reports",
                 "Quit", "Timeout"}, nd \in ND :
         /\ CanUse(s, v) /\ Observes(s, v, nd)
         /\ LET value == Sel("Main", v, FALSE, 0)
            IN Commit(s, settings_main_resume(Frame(s), value, nd), value)

ModSelect(s) ==
    /\ s \in active /\ pc[s] = "Moderation"
    /\ \E v \in ModOptions \cup {"Back", "Timeout"}, nd \in ND :
         /\ CanUse(s, v) /\ Observes(s, v, nd)
         /\ LET value == Sel("Moderation", v, FALSE, 0)
            IN Commit(s, settings_mod_resume(Frame(s), value, nd), value)

\* BooleanButton.callback hands over (label, not state).
LoggingSelect(s) ==
    /\ s \in active /\ pc[s] = "Logging"
    /\ \E v \in LogEvents \cup {"Color logs", "Back", "Timeout"}, nd \in ND :
         /\ CanUse(s, v) /\ Observes(s, v, nd)
         /\ LET value == Sel("Logging", v,
                             IF v = "Color logs" THEN ~view[s].color ELSE FALSE, 0)
            IN Commit(s, settings_logging_resume(Frame(s), value, nd), value)

LogAskResult(s) ==
    /\ s \in active /\ pc[s] = "LogAsk"
    /\ \E v \in {"value", "TypeError", "TimeoutError"},
          n \in Channels \cup {NoId}, nd \in ND :
         /\ v # "value" => n = NoId
         /\ Observes(s, v, nd)
         /\ LET res == Sel("LogAsk", v, FALSE, n)
            IN Commit(s, settings_logging_ask(Frame(s), res, nd), res)

ReportsSelect(s) ==
    /\ s \in active /\ pc[s] = "Reports"
    /\ \E v \in {"Enabled", "Set Channel", "Add Role", "Remove Role",
                 "Back", "Timeout"}, nd \in ND :
         /\ CanUse(s, v) /\ Observes(s, v, nd)
         /\ v = "Enabled"     => ~view[s].enabled_disabled
         /\ v = "Add Role"    => ~view[s].add_disabled
         /\ v = "Remove Role" => ~view[s].remove_disabled
         /\ LET value == Sel("Reports", v,
                             IF v = "Enabled" THEN ~view[s].enabled ELSE FALSE, 0)
            IN Commit(s, settings_report_resume(Frame(s), value, nd), value)

AskChannelResult(s) ==
    /\ s \in active /\ pc[s] = "AskChannel"
    /\ \E v \in {"value", "TypeError", "TimeoutError"},
          n \in Channels \cup {NoId}, nd \in ND :
         /\ (v = "value") <=> (n # NoId)
         /\ Observes(s, v, nd)
         /\ LET res == Sel("AskChannel", v, FALSE, n)
            IN Commit(s, settings_report_set_channel(Frame(s), res, nd), res)

AskAddRoleResult(s) ==
    /\ s \in active /\ pc[s] = "AskAddRole"
    /\ \E v \in {"value", "TypeError", "TimeoutError"},
          n \in Roles \cup {NoId}, nd \in ND :
         /\ (v = "value") <=> (n # NoId)
         /\ Observes(s, v, nd)
         /\ v = "value" => Len(view[s].pinged_roles) < MaxPinged
         /\ LET res == Sel("AskAddRole", v, FALSE, n)
            IN Commit(s, settings_report_add_role(Frame(s), res, nd), res)

AskRemoveRoleResult(s) ==
    /\ s \in active /\ pc[s] = "AskRemoveRole"
    /\ \E v \in {"value", "TypeError", "TimeoutError"},
          n \in Roles \cup {NoId}, nd \in ND :
         /\ (v = "value") <=> (n # NoId)
         /\ Observes(s, v, nd)
         /\ LET res == Sel("AskRemoveRole", v, FALSE, n)
            IN Commit(s, settings_report_remove_role(Frame(s), res, nd), res)

ErrorSelect(s) ==
    /\ s \in active /\ pc[s] = "Error"
    /\ \E v \in {"Back", "Timeout"}, nd \in ND :
         /\ CanUse(s, v) /\ Observes(s, v, nd)
         /\ LET value == Sel("Error", v, FALSE, 0)
            IN Commit(s, error_view_handler_resume(Frame(s), value, nd), value)

Next ==
    \/ \E s \in Sessions : Invoke(s)
    \/ \E s \in Sessions : MainSelect(s)
    \/ \E s \in Sessions : ModSelect(s)
    \/ \E s \in Sessions : LoggingSelect(s)
    \/ \E s \in Sessions : LogAskResult(s)
    \/ \E s \in Sessions : ReportsSelect(s)
    \/ \E s \in Sessions : AskChannelResult(s)
    \/ \E s \in Sessions : AskAddRoleResult(s)
    \/ \E s \in Sessions : AskRemoveRoleResult(s)
    \/ \E s \in Sessions : ErrorSelect(s)

Spec == Init /\ [][Next]_vars

\* Two /settings invocations at once, in one guild or in two: every
\* interleaving of their steps, MaxSteps steps deep.
InitTwo ==
    /\ active = {1, 2}
    /\ \E g \in Guilds : guildOf = [s \in Sessions |-> IF s = 2 THEN g ELSE 1]
    /\ InitSessions
    /\ db = [g \in Guilds |-> EmptyRows]
    /\ cache = db
    /\ fuel = MaxSteps
    /\ eh = EhIdle(NoId)
    /\ ch = NoCall

SpecTwo == InitTwo /\ [][Next]_vars

\* back called on its own: a context whose parent is None or a menu name, a
\* message or None, the guild's rows as they may be.
BackParents == {None, "Main", "Logging", "Reports"}

InitBack ==
    /\ active = {1}
    /\ guildOf = [s \in Sessions |-> 1]
    /\ pc = [s \in Sessions |-> IF s = 1 THEN "call" ELSE "idle"]
    /\ \E p \in BackParents :
          parent = [s \in Sessions |-> IF s = 1 THEN p ELSE None]
    /\ \E m \in {NoMsg, NewMsg} :
          message = [s \in Sessions |-> IF s = 1 THEN m ELSE NoMsg]
    /\ shown   = [s \in Sessions |-> IF s = 1 THEN NewMsg ELSE NoMsg]
    /\ view    = [s \in Sessions |-> BlankView]
    /\ pending = [s \in Sessions |-> "none"]
    /\ deleted = [s \in Sessions |-> {}]
    /\ gone    = [s \in Sessions |-> {}]
    /\ quit    = [s \in Sessions |-> FALSE]
    /\ sel     = [s \in Sessions |-> NoSel]
    /\ ev      = [s \in Sessions |-> <<>>]
    /\ db \in InitDb({1})
    /\ cache = db
    /\ fuel = NoLimit
    /\ eh = EhIdle(NoId)
    /\ ch = NoCall

\* await back(ctx, message)
CallBack(s) ==
    /\ s \in active /\ pc[s] = "call"
    /\ \E nd \in ND :
         Commit(s, back(Frame(s), message[s], nd), Sel("call", "Back", FALSE, 0))

NextBack == \E s \in Sessions : CallBack(s)

SpecBack == InitBack /\ [][NextBack]_vars

\* The Reports menu on its own: the guild's row holds any list of role ids,
\* also ids of roles that no longer exist, and settings_report has drawn
\* the menu and waits.
RoleLists == SeqsUpTo(Roles \cup {GoneRole}, MaxPinged)

RoleRows(l) ==
    [EmptyRows EXCEPT !.reports = [exists |-> TRUE, is_enabled |-> FALSE,
                                   channel_id |-> NoId, roles_null |-> FALSE,
                                   pinged_role_ids |-> l]]

ReportsDrawn(l) ==
    settings_report(
        [pc |-> "run", parent |-> None, message |-> NewMsg, shown |-> NewMsg,
         view |-> BlankView, pending |-> "none", deleted |-> {}, gone |-> {},
         quit |-> FALSE, ev |-> <<>>, db |-> RoleRows(l), cache |-> RoleRows(l)],
        NewMsg, [editOk |-> TRUE, startOk |-> TRUE, delOk |-> TRUE])

InitRoles ==
    /\ active = {1}
    /\ guildOf = [s \in Sessions |-> 1]
    /\ \E l \in RoleLists :
         LET R == ReportsDrawn(l)
         IN /\ pc      = [s \in Sessions |-> IF s = 1 THEN R.pc ELSE "idle"]
            /\ parent  = [s \in Sessions |-> IF s = 1 THEN R.parent ELSE None]
            /\ message = [s \in Sessions |-> IF s = 1 THEN R.message ELSE NoMsg]
            /\ shown   = [s \in Sessions |-> IF s = 1 THEN R.shown ELSE NoMsg]
            /\ view    = [s \in Sessions |-> IF s = 1 THEN R.view ELSE BlankView]
            /\ db      = [g \in Guilds |-> IF g = 1 THEN R.db ELSE EmptyRows]
    /\ pending = [s \in Sessions |-> "none"]
    /\ deleted = [s \in Sessions |-> {}]
    /\ gone    = [s \in Sessions |-> {}]
    /\ quit    = [s \in Sessions |-> FALSE]
    /\ sel     = [s \in Sessions |-> NoSel]
    /\ ev      = [s \in Sessions |-> <<>>]
    /\ cache = db
    /\ fuel = NoLimit
    /\ eh = EhIdle(NoId)
    /\ ch = NoCall

NextRoles ==
    \/ \E s \in Sessions : ReportsSelect(s)
    \/ \E s \in Sessions : AskAddRoleResult(s)
    \/ \E s \in Sessions : AskRemoveRoleResult(s)

SpecRoles == InitRoles /\ [][NextRoles]_vars

\* ---------------------------------------------- the error reporter, steps
\* A command error event reaches one of the listeners.
ErrorEvent ==
    /\ eh.pc = "idle"
    /\ \E error \in Errors, npages \in 1..MaxPages :
          eh' = application_error_handler(eh, error, npages)
    /\ UNCHANGED <<svars, ch>>

SendPage ==
    /\ eh.pc = "sending"
    /\ \E ok \in BOOLEAN : eh' = send_page(eh, ok)
    /\ UNCHANGED <<svars, ch>>

NextErr == ErrorEvent \/ SendPage

InitErr ==
    /\ active = {}
    /\ guildOf = [s \in Sessions |-> 1]
    /\ InitSessions
    /\ db = [g \in Guilds |-> EmptyRows]
    /\ cache = db
    /\ fuel = NoLimit
    /\ \E channel \in {NoId} \cup Channels : eh = EhIdle(channel)
    /\ ch = NoCall

SpecErr == InitErr /\ [][NextErr]_vars

\* log_error_to_homeguild called on its own, with or without ctx and event.
LogCall ==
    /\ eh.pc = "idle"
    /\ \E ctx \in BOOLEAN, event \in BOOLEAN, npages \in 1..MaxPages :
          eh' = log_error_to_homeguild(eh, ctx, event, npages)
    /\ UNCHANGED <<svars, ch>>

NextLog == LogCall \/ SendPage

SpecLog == InitErr /\ [][NextLog]_vars

\* --------------------------------------------------- can_harm, its calls
\* A caller holds a bot member, a target member and a permission.
InitHarm ==
    /\ active = {}
    /\ guildOf = [s \in Sessions |-> 1]
    /\ InitSessions
    /\ db = [g \in Guilds |-> EmptyRows]
    /\ cache = db
    /\ fuel = NoLimit
    /\ eh = EhIdle(NoId)
    /\ \E me \in Mes, member \in Members, permission \in Permissions :
          ch = [NoCall EXCEPT !.me = me, !.member = member,
                              !.permission = permission]

CanHarmCall ==
    /\ ch.result = "none"
    /\ \E raise_error \in BOOLEAN :
          ch' = [ch EXCEPT !.raise_error = raise_error,
                           !.result = can_harm(ch.me, ch.member, ch.permission,
                                               raise_error)]
    /\ UNCHANGED <<svars, eh>>

NextHarm == CanHarmCall

SpecHarm == InitHarm /\ [][NextHarm]_vars

\* ------------------------------------------- properties: error reporter
\* The categories the reporter is meant to recognise, and the embed meant
\* for each of them.
Recognized(error) ==
    \/ error.cls \in {"MissingRequiredPermission", "BotMissingRequiredPermission",
                      "CommandIsOnCooldown"}
    \/ /\ error.cls = "CommandInvocationError"
       /\ error.original \in {"TimeoutError", "InternalServerError",
                              "ForbiddenError", "RoleHierarchyError"}

TailoredTitle(error) ==
    CASE error.cls = "MissingRequiredPermission"    -> "Missing Permissions"
      [] error.cls = "BotMissingRequiredPermission" -> "Bot Missing Permissions"
      [] error.cls = "CommandIsOnCooldown"          -> "Cooldown Pending"
      [] error.original = "TimeoutError"            -> "Action timed out"
      [] error.original = "InternalServerError"     -> "Discord Server Error"
      [] error.original = "ForbiddenError"          -> "Forbidden"
      [] error.original = "RoleHierarchyError"      -> "Role Hiearchy Error"
      [] OTHER                                      -> "Unhandled exception"

Handled == eh.pc \in {"done", "crashed"}

\* C3: once the handler is through with an error of a recognised category,
\* it has sent exactly one response, ephemeral, carrying the embed tailored
\* to that category.
C3_TailoredResponse ==
    (Handled /\ Recognized(eh.error)) =>
        eh.responses = <<Response(TailoredTitle(eh.error))>>

\* C4: for an error of a recognised category log_error_to_homeguild is never
\* called and nothing is sent to the operator log channel.
C4_RecognizedNotLogged ==
    Recognized(eh.error) => (~eh.logged /\ eh.sends = <<>>)

C6_SendFailureSwallowed ==
    (\E i \in 1..Len(eh.sends) : ~eh.sends[i].ok) =>
        /\ eh.raised = "none" /\ eh.pc # "crashed"
        /\ \A i \in 1..Len(eh.sends) : eh.sends[i].page = i
        /\ eh.log_errors = Cardinality({i \in 1..Len(eh.sends) : ~eh.sends[i].ok})
        /\ eh.pc = "done" =>
              /\ Len(eh.sends) = eh.npages
              /\ eh.responses = <<Response("Unhandled exception")>>

C6_Witness ==
    /\ eh.pc = "done" /\ eh.npages = 3 /\ Len(eh.sends) = 3
    /\ ~eh.sends[1].ok /\ eh.sends[2].ok /\ ~eh.sends[3].ok
    /\ eh.responses = <<Response("Unhandled exception")>>

\* ------------------------------------------- properties: settings session
Kinds(q, k)    == SelectSeq(q, LAMBDA e : e.k = k)
CallNames(q)   == [i \in 1..Len(Kinds(q, "call")) |-> Kinds(q, "call")[i].a]
Writes(q)      == Kinds(q, "write")
Renders(q)     == Kinds(q, "wait")
DeleteIssued(q, m) == \E i \in 1..Len(q) : q[i].k = "delete" /\ q[i].n = m

\* Session s took the step that leads to the primed state.
Stepped(s) == pc'[s] # pc[s] \/ ev'[s] # ev[s] \/ sel'[s] # sel[s]

\* C1: whatever was navigated before, a Quit or Timeout of a menu screen
\* calls delete on the message carrying the menu and writes nothing to the
\* database before the session ends.
C1_QuitDeletesMessage ==
    \A s \in Sessions :
        (sel[s].at \in MenuScreens /\ sel[s].v \in {"Quit", "Timeout"}) =>
            /\ DeleteIssued(ev[s], shown[s])
            /\ Writes(ev[s]) = <<>>
            /\ pc[s] = "done"

\* C2: a prompt that times out ends the session like Quit: the message is
\* deleted, no statement reaches the database afterwards and no menu is
\* rendered again.
C2_PromptTimeoutIsQuit ==
    \A s \in Sessions :
        (sel[s].at \in Prompts /\ sel[s].v = "TimeoutError") =>
            /\ DeleteIssued(ev[s], shown[s])
            /\ Writes(ev[s]) = <<>>
            /\ Renders(ev[s]) = <<>>
            /\ pc[s] = "done"

\* C7: Back on a nested screen calls back and then exactly the handler that
\* menu_actions registers under the value ctx.parent had while the screen
\* was shown; no other handler is called in that step.
C7_BackReturnsToParent ==
    [][\A s \in Sessions :
          (pc[s] \in NestedScreens /\ Stepped(s) /\ sel'[s].v = "Back") =>
              /\ parent[s] \in DOMAIN menu_actions
              /\ CallNames(ev'[s]) = <<"back", menu_actions[parent[s]]>>]_vars

C7_Witness ==
    /\ sel[1].at = "Error" /\ sel[1].v = "Back"
    /\ pc[1] = "Reports"
    /\ CallNames(ev[1]) = <<"back", "settings_report">>

\* The toggle controls: every Moderation option, "Color logs", "Enabled".
Toggles == ModOptions \cup {"Color logs", "Enabled"}

\* The boolean a toggle asks for: a Moderation button stands for the negation
\* of the value shown, a BooleanButton hands its new state over.
Requested(s) ==
    IF sel'[s].v \in ModOptions THEN ~view[s].mod[sel'[s].v] ELSE sel'[s].b

StoredAfter(s) ==
    LET row == db'[guildOf[s]]
    IN CASE sel'[s].v \in ModOptions -> row.mod.exists /\ row.mod.opt[sel'[s].v] = Requested(s)
         [] sel'[s].v = "Color logs" -> row.log.exists /\ row.log.color = Requested(s)
         [] OTHER                    -> row.reports.exists /\ row.reports.is_enabled = Requested(s)

ShownAfter(s) ==
    CASE sel'[s].v \in ModOptions -> view'[s].mod[sel'[s].v] = Requested(s)
      [] sel'[s].v = "Color logs" -> view'[s].color = Requested(s)
      [] OTHER                    -> view'[s].enabled = Requested(s)

\* C8: whatever rows the guild had, a toggle leaves the requested boolean
\* stored, and the step ends with the same menu rendered again, its control
\* showing that boolean.
C8_ToggleReadAfterWrite ==
    [][\A s \in Sessions :
          (pc[s] \in MenuScreens /\ Stepped(s) /\ sel'[s].v \in Toggles) =>
              /\ StoredAfter(s)
              /\ pc'[s] = pc[s]
              /\ ShownAfter(s)]_vars

\* The step of s carries out a change of the configuration: a toggle, or a
\* prompt that yielded a channel or role the handler accepts.
MutationStep(s) ==
    \/ pc[s] \in MenuScreens /\ sel'[s].v \in Toggles
    \/ /\ pc[s] \in Prompts /\ sel'[s].v = "value"
       /\ pc[s] = "AskRemoveRole" => sel'[s].n \in Range(view[s].pinged_roles)

\* C9: from one render to the next exactly one statement is handed to the
\* database when the selection changed the configuration, none otherwise;
\* for "Color logs" that statement carries the new boolean.
C9_OneWritePerMutation ==
    [][\A s \in Sessions :
          Stepped(s) =>
              /\ Len(Writes(ev'[s])) = IF MutationStep(s) THEN 1 ELSE 0
              /\ (pc[s] = "Logging" /\ sel'[s].v = "Color logs") =>
                    Writes(ev'[s]) = <<Write("log", "color", 0, ~view[s].color, <<>>)>>]_vars

\* The menu a prompt was opened from.
PromptOrigin(p) == IF p = "LogAsk" THEN "Logging" ELSE "Reports"

\* The prompt of s yields something the handler cannot use.
UnresolvedStep(s) ==
    /\ pc[s] \in Prompts /\ Stepped(s)
    /\ \/ sel'[s].v = "TypeError"
       \/ /\ pc[s] = "AskRemoveRole" /\ sel'[s].v = "value"
          /\ sel'[s].n \notin Range(view[s].pinged_roles)

\* C10: input that cannot be resolved leads to the error panel, whose only
\* control is Back and whose parent is the menu the prompt came from; Back
\* then redraws that menu; the prompt is not opened again and nothing is
\* written on the way.
C10_UnresolvedShowsErrorPanel ==
    [][\A s \in Sessions :
          /\ UnresolvedStep(s) =>
                /\ pc'[s] = "Error"
                /\ view'[s] = [BlankView EXCEPT !.screen = "Error", !.nested = TRUE]
                /\ parent'[s] = PromptOrigin(pc[s])
                /\ Writes(ev'[s]) = <<>>
          /\ (pc[s] = "Error" /\ Stepped(s) /\ sel'[s].v = "Back") =>
                /\ pc'[s] = parent[s]
                /\ Kinds(ev'[s], "ask") = <<>>
                /\ Writes(ev'[s]) = <<>>]_vars

\* The exceptions the last step of a session let escape.
Raised(q) == {e.a : e \in Range(Kinds(q, "raise"))}

\* C11: no step fails on a key missing from menu_actions: the value a Main
\* or error-panel view hands to the table is a key of it, and so is ctx.parent
\* on every nested screen, where Back would index the table with it.
C11_DispatchKeysRegistered ==
    \A s \in Sessions :
        /\ "KeyError" \notin Raised(ev[s])
        /\ sel[s].at \in {"Main", "Error"} => sel[s].v \in DOMAIN menu_actions
        /\ pc[s] \in NestedScreens => parent[s] \in DOMAIN menu_actions

C11_Witness ==
    /\ sel[1].at = "Main" /\ sel[1].v = "Auto-Moderation"
    /\ CallNames(ev[1]) = <<"settings_automod">>
    /\ pc[1] = "done"

\* What a handler does to read or draw a menu: a handler is entered, the
\* message is edited or created, a view or a prompt starts to wait.
ReadOrRender == {"call", "edit", "respond", "wait", "ask"}

\* The statement at position i of q is followed by a refresh of its table
\* before anything is read or drawn.
RefreshFollows(q, i) ==
    \E j \in (i + 1)..Len(q) :
        /\ q[j].k = "refresh" /\ q[j].a = q[i].a
        /\ \A m \in (i + 1)..(j - 1) : q[m].k \notin ReadOrRender

\* C12: every statement a settings handler hands to the database is followed
\* by db_cache.refresh for the same table before the menu is read or drawn
\* again, and the guild's cache then holds the row just stored.
C12_WriteThenRefresh ==
    \A s \in Sessions :
        \A i \in 1..Len(ev[s]) :
            ev[s][i].k = "write" =>
                /\ RefreshFollows(ev[s], i)
                /\ cache[guildOf[s]][ev[s][i].a] = db[guildOf[s]][ev[s][i].a]

C12_Witness ==
    /\ sel[1].at = "AskAddRole" /\ sel[1].v = "value"
    /\ Len(Writes(ev[1])) = 1 /\ Len(Kinds(ev[1], "refresh")) = 1
    /\ pc[1] = "Reports"
    /\ view[1].pinged_roles = db[1].reports.pinged_role_ids
    /\ view[1].pinged_roles # <<>>

\* message.edit / message.delete failed inside maybe_edit / maybe_delete.
EditFailed(q)   == \E i \in 1..Len(q) : q[i].k = "edit" /\ ~q[i].b
DeleteFailed(q) == \E i \in 1..Len(q) : q[i].k = "delete" /\ ~q[i].b

\* C13: a failed edit or delete of the menu message lets no exception
\* escape; after a failed edit the handler ends up waiting on the view it
\* built, after a failed delete the session is over and did nothing more.
C13_FailedEditDeleteSwallowed ==
    \A s \in Sessions :
        /\ EditFailed(ev[s]) =>
              /\ Raised(ev[s]) = {}
              /\ pc[s] \in ViewScreens /\ pc[s] = view[s].screen
        /\ DeleteFailed(ev[s]) =>
              /\ Raised(ev[s]) = {}
              /\ pc[s] = "done"
              /\ ev[s][Len(ev[s])].k = "delete"

\* What belongs to one invocation: the context's parent, the menu it waits
\* on, its message and what that message shows.
Own(t) == <<parent[t], pc[t], message[t], shown[t], view[t], pending[t],
            deleted[t], gone[t], quit[t]>>

\* C14: a step of one session leaves everything that belongs to another
\* invocation as it was; if the two are in different guilds it also leaves
\* the other guild's rows and cached rows as they were.
C14_SessionsIndependent ==
    [][\A s, t \in Sessions :
          (s # t /\ Stepped(s)) =>
              /\ Own(t)' = Own(t)
              /\ guildOf[s] # guildOf[t] =>
                    /\ db'[guildOf[t]] = db[guildOf[t]]
                    /\ cache'[guildOf[t]] = cache[guildOf[t]]]_vars

C14_Witness ==
    /\ guildOf[1] # guildOf[2]
    /\ sel[1].at = "AskChannel" /\ sel[1].v = "value"
    /\ db[guildOf[1]].reports.channel_id # NoId
    /\ ~db[guildOf[2]].reports.exists
    /\ pc[1] = "Reports" /\ ~view[1].enabled_disabled
    /\ pc[2] = "Reports" /\ view[2].enabled_disabled

\* C15: parent holds one value: None once Main waits, "Main" once
\* Moderation, Logging or Reports waits, the menu the prompt came from once
\* an error panel waits.  So Back on the menu an error panel led back to
\* calls settings_main, with parent None again, and neither the error panel
\* nor a prompt.
C15_ParentIsSingleValue ==
    [][\A s \in Sessions :
          Stepped(s) =>
              /\ pc'[s] = "Main" => parent'[s] = None
              /\ pc'[s] \in {"Moderation", "Logging", "Reports"} =>
                    parent'[s] = "Main"
              /\ pc'[s] = "Error" =>
                    pc[s] \in Prompts /\ parent'[s] = PromptOrigin(pc[s])
              /\ (/\ sel[s].at = "Error" /\ sel[s].v = "Back"
                  /\ pc[s] \in MenuScreens /\ sel'[s].v = "Back") =>
                    /\ CallNames(ev'[s]) = <<"back", "settings_main">>
                    /\ parent'[s] = None
                    /\ pc'[s] \notin Prompts \cup {"Error"}]_vars

C15_Witness ==
    /\ sel[1].at = "Error" /\ sel[1].v = "Back"
    /\ pc[1] = "Reports" /\ parent[1] = "Main"
    /\ shown[1] \notin gone[1] /\ message[1] # NoMsg

\* C16: back calls the handler of ctx.parent when there is one; when there
\* is none it ends the session as Quit does, with a delete of the message.
C16_BackOrQuit ==
    [][\A s \in Sessions :
          (pc[s] = "call" /\ Stepped(s)) =>
              IF parent[s] # None
              THEN CallNames(ev'[s]) = <<"back", menu_actions[parent[s]]>>
              ELSE /\ \E i \in 1..Len(ev'[s]) : ev'[s][i].k = "delete"
                   /\ pc'[s] = "done"]_vars

\* C17: when the handler chain of a session is over, a delete of the message
\* carrying its menu has been issued: no message is left behind with
\* controls that no handler waits on.
C17_EndsInTeardown ==
    \A s \in Sessions :
        pc[s] \in Ended => (shown[s] # NoMsg /\ shown[s] \in deleted[s])

\* C18: the stored reports row is never enabled without a channel: while no
\* channel is stored the Enabled button is disabled and drawn as off, and
\* the channel statement only ever binds the id of a channel of the guild.
C18_EnabledNeedsChannel ==
    \A s \in Sessions :
        LET row == db[guildOf[s]].reports
        IN /\ row.is_enabled => row.channel_id # NoId
           /\ (pc[s] = "Reports" /\ row.channel_id = NoId) =>
                 (view[s].enabled_disabled /\ ~view[s].enabled)
           /\ \A i \in 1..Len(ev[s]) :
                 (ev[s][i].k = "write" /\ ev[s][i].c = "channel_id") =>
                     ev[s][i].n \in Channels

C18_Witness ==
    /\ sel[1].at = "Reports" /\ sel[1].v = "Enabled" /\ sel[1].b
    /\ db[1].reports.is_enabled /\ db[1].reports.channel_id \in Channels
    /\ pc[1] = "Reports" /\ view[1].enabled

\* The list of role ids stored for the guild of session s.
StoredRoles(s) == db[guildOf[s]].reports.pinged_role_ids

\* Every stored id names a role the guild still has.
RolesResolve(s) ==
    \A i \in 1..Len(StoredRoles(s)) : get_role(StoredRoles(s)[i]) # NoId

C20_RaiseErrorNeverFalse ==
    (ch.result # "none" /\ ch.raise_error) =>
        LET has == includes_permissions(ch.me.perms, ch.permission)
        IN /\ ch.result # "False"
           /\ ~has => ch.result = "BotMissingRequiredPermission"
           /\ (has /\ ch.member.guild /\ ch.member.owner) =>
                 ch.result = "RoleHierarchyError"
           /\ (has /\ ch.member.guild /\ ~ch.member.owner
                 /\ is_above(ch.me, ch.member) = "False") =>
                 ch.result = "RoleHierarchyError"
           /\ (ch.result = "True") <=>
                 (can_harm(ch.me, ch.member, ch.permission, FALSE) = "True")

\* The header log_error_to_homeguild is to build for its arguments.
HeaderFor(ctx, event) ==
    IF ctx THEN "command" ELSE IF event THEN "listener" ELSE "uncaught"

\* C21: whichever of ctx and event a call of log_error_to_homeguild is
\* given, it raises nothing and has built the header of its case; when it
\* has returned, every page was handed to create_message for the configured
\* channel, in order, or nothing was sent when no channel is configured.
C21_LogCompletes ==
    (eh.logged /\ eh.error.cls = "none") =>
        /\ eh.raised = "none" /\ eh.pc # "crashed"
        /\ eh.header = HeaderFor(eh.ctx, eh.event)
        /\ eh.pc = "logged" =>
              /\ eh.config = NoId => eh.sends = <<>>
              /\ eh.config # NoId =>
                    /\ Len(eh.sends) = eh.npages
                    /\ \A i \in 1..Len(eh.sends) :
                          eh.sends[i].page = i /\ eh.sends[i].channel = eh.config

====
